---------------------------- MODULE Spec2Model ----------------------------
(***************************************************************************)
(* A model of plotting.py (wildfire-satellite-analysis): the interactive   *)
(* map builder, the static screenshot generator and the two statistical    *)
(* plotters, together with the resources they touch: the working           *)
(* directory's files, the per-call headless browser and matplotlib's       *)
(* current figure.                                                         *)
(*                                                                         *)
(* Spec     : one caller makes one call of any of the functions.           *)
(* SpecConc : two callers run create_map_screenshot concurrently in the    *)
(*            same working directory.                                      *)
(***************************************************************************)
EXTENDS Integers, Sequences, FiniteSets, TLC

VARIABLES
    pc,       \* pc[p]: where caller p stands inside its call
    args,     \* args[p]: the arguments of p's call
    m,        \* m[p]: the folium.Map object local to p's call
    browser,  \* browser[p]: the webdriver.Chrome instance of p's call
    ret,      \* ret[p]: what the call handed back (a value or an exception)
    log,      \* log[p]: the side-effecting steps p's call has performed, in order
    files,    \* the working directory: path -> file content
    pgf,      \* the files under latex_plots/
    fig,      \* matplotlib's current figure
    shown     \* what plt.show() has displayed

vars == <<pc, args, m, browser, ret, log, files, pgf, fig, shown>>

(***************************************************************************)
(* Bounds of the model.                                                    *)
(***************************************************************************)
MaxRows == 2        \* longest matched-pairs table
MaxLabelLen == 3    \* longest generated dataset label

Procs == {"A", "B"}
Main == "A"

(***************************************************************************)
(* Program constants.                                                      *)
(***************************************************************************)
InteractiveZoom == 6
MarkerRadius == 6
DefaultZoom == 13
DefaultWidth == 800
DefaultHeight == 600
TempHtml == "temp_map.html"
None == "<None>"
NA == "N/A"

(***************************************************************************)
(* Numbers.  Coordinates and their means are exact rationals <<num, den>>  *)
(* in lowest terms with den > 0; <<0, 0>> is NaN.                          *)
(***************************************************************************)
Abs(x) == IF x < 0 THEN -x ELSE x

RECURSIVE Gcd(_, _)
Gcd(a, b) == IF b = 0 THEN a ELSE Gcd(b, a % b)

NaN == <<0, 0>>
Rat(n, d) ==
    IF d = 0 THEN NaN
    ELSE LET g == Gcd(Abs(n), Abs(d))
             s == IF d < 0 THEN -1 ELSE 1
         IN  <<(s * n) \div g, (s * d) \div g>>
RatAdd(x, y) == IF x = NaN \/ y = NaN THEN NaN
                ELSE Rat(x[1] * y[2] + y[1] * x[2], x[2] * y[2])
RatDiv(x, k) == IF x = NaN THEN NaN ELSE Rat(x[1], x[2] * k)

RECURSIVE SumSeq(_)
SumSeq(s) == IF s = <<>> THEN 0 ELSE Head(s) + SumSeq(Tail(s))

(***************************************************************************)
(* The matched-pairs table: a DataFrame is its set of columns and its      *)
(* rows.  A row read by iterrows() carries exactly the table's columns.    *)
(***************************************************************************)
CoordColumns == {"modis_lat", "modis_lon", "viirs_lat", "viirs_lon"}
OptionalColumns == {"modis_confidence", "modis_brightness"}
AllColumns == CoordColumns \cup OptionalColumns \cup
              {"modis_time", "viirs_time", "time_diff_minutes", "distance_km"}

Points == {<<47, 6>>, <<54, 15>>}

Rows == [modis : Points, viirs : Points]

\* timestamps are <<year, month, day, hour, minute, second>>
ModisTime == <<2020, 4, 20, 10, 30, 0>>
ViirsTime == <<2020, 4, 20, 10, 42, 7>>

RowValue(row, col) ==
    CASE col = "modis_lat" -> row.modis[1]
      [] col = "modis_lon" -> row.modis[2]
      [] col = "viirs_lat" -> row.viirs[1]
      [] col = "viirs_lon" -> row.viirs[2]
      [] col = "modis_time" -> ModisTime
      [] col = "viirs_time" -> ViirsTime
      [] col = "modis_confidence" -> 80
      [] col = "modis_brightness" -> 310
      [] col = "time_diff_minutes" -> -12
      [] col = "distance_km" -> 2

SeqsUpTo(S, k) == UNION {[1..n -> S] : n \in 0..k}

Tables == SeqsUpTo(Rows, MaxRows)

\* n copies of one row: the tables of the calls whose rows' values play no part
SmallTables == {[i \in 1..n |-> [modis |-> <<47, 6>>, viirs |-> <<54, 15>>]] : n \in 0..MaxRows}

\* which columns a table may lack: any of the optional ones, or one other
ColumnSets == {AllColumns \ miss : miss \in
                 (SUBSET OptionalColumns) \cup {{c} : c \in AllColumns \ OptionalColumns}}

Column(table, col) == [i \in 1..Len(table) |-> RowValue(table[i], col)]

\* Series.mean(): the unweighted average, NaN for an empty column
Mean(xs) == Rat(SumSeq(xs), Len(xs))

(***************************************************************************)
(* Text.                                                                   *)
(***************************************************************************)
Pad2(n) == IF n < 10 THEN "0" \o ToString(n) ELSE ToString(n)

\* '%Y-%m-%d %H:%M'
FormatMinute(t) == ToString(t[1]) \o "-" \o Pad2(t[2]) \o "-" \o Pad2(t[3]) \o " "
                   \o Pad2(t[4]) \o ":" \o Pad2(t[5])
\* str(Timestamp)
StrTime(t) == FormatMinute(t) \o ":" \o Pad2(t[6])
\* ':.1f' of a whole number
Format1f(n) == ToString(n) \o ".0"

\* the text an f-string puts for a cell of the row
CellText(row, col) ==
    CASE col \in {"modis_time", "viirs_time"} -> StrTime(RowValue(row, col))
      [] OTHER -> ToString(RowValue(row, col))

\* a mutant of GetText: match.get(col) without its default
GetText_NoDefault(row, cols, col, default) ==
    IF col \in cols THEN CellText(row, col) ELSE "None"

\* f"{match.get(col, default)}": the cell's text, or the default when the
\* row has no such key
GetText(row, cols, col, default) ==
    IF col \in cols THEN CellText(row, col) ELSE default

(***************************************************************************)
(* folium objects.                                                         *)
(***************************************************************************)
IntLoc(lat, lon) == <<Rat(lat, 1), Rat(lon, 1)>>

CircleMarker(loc, color, popup) ==
    [type |-> "CircleMarker", location |-> loc, radius |-> MarkerRadius,
     color |-> color, fill |-> TRUE, weight |-> 2, popup |-> popup]

PolyLine(from, to) ==
    [type |-> "PolyLine", locations |-> <<from, to>>, color |-> "gray", weight |-> 1]

FeatureGroup(name, children) ==
    [type |-> "FeatureGroup", name |-> name, children |-> children]

LayerControl == [type |-> "LayerControl"]

Map(location, zoom) ==
    [location |-> location, zoom_start |-> zoom, tiles |-> "CartoDB positron",
     children |-> <<>>, html |-> <<>>]

NoMap == [location |-> <<NaN, NaN>>, zoom_start |-> 0, tiles |-> "", children |-> <<>>,
          html |-> <<>>]

AddTo(map, element) == [map EXCEPT !.children = Append(@, element)]

\* the elements of `type` among children, feature groups' children included
RECURSIVE CountType(_, _)
CountType(children, type) ==
    IF children = <<>> THEN 0
    ELSE LET e == Head(children)
             here == IF e.type = type THEN 1
                     ELSE IF e.type = "FeatureGroup" THEN CountType(e.children, type)
                     ELSE 0
         IN  here + CountType(Tail(children), type)

RECURSIVE CountColor(_, _)
CountColor(children, color) ==
    IF children = <<>> THEN 0
    ELSE LET e == Head(children)
             here == IF e.type = "CircleMarker" THEN (IF e.color = color THEN 1 ELSE 0)
                     ELSE IF e.type = "FeatureGroup" THEN CountColor(e.children, color)
                     ELSE 0
         IN  here + CountColor(Tail(children), color)

(***************************************************************************)
(* plot_matches_interactive_map                                            *)
(***************************************************************************)
\* a mutant of InteractiveCenter: the MODIS means alone
InteractiveCenter_ModisOnly(table) ==
    <<Mean(Column(table, "modis_lat")), Mean(Column(table, "modis_lon"))>>

\* lines 37-38: the midpoint of the two mean coordinates
InteractiveCenter(table) ==
    <<RatDiv(RatAdd(Mean(Column(table, "modis_lat")), Mean(Column(table, "viirs_lat"))), 2),
      RatDiv(RatAdd(Mean(Column(table, "modis_lon")), Mean(Column(table, "viirs_lon"))), 2)>>

\* lines 54-60
ModisPopup(row, cols) ==
    [title |-> "MODIS Detection",
     time |-> CellText(row, "modis_time"),
     confidence |-> GetText(row, cols, "modis_confidence", NA),
     brightness |-> GetText(row, cols, "modis_brightness", NA),
     time_diff |-> Format1f(RowValue(row, "time_diff_minutes")) \o " min"]

\* lines 71-75
ViirsPopup(row) ==
    [title |-> "VIIRS Detection",
     time |-> CellText(row, "viirs_time"),
     distance |-> Format1f(RowValue(row, "distance_km")) \o " km"]

NoGroups == [modis |-> <<>>, viirs |-> <<>>, lines |-> <<>>, exc |-> "none"]

\* lines 53-95: one pass of the loop body; it stops at the first key the row
\* does not have
InteractiveRow(row, cols, show_lines, g) ==
    LET mloc == IntLoc(RowValue(row, "modis_lat"), RowValue(row, "modis_lon"))
        vloc == IntLoc(RowValue(row, "viirs_lat"), RowValue(row, "viirs_lon"))
    IN
    IF ~ ({"modis_time", "time_diff_minutes"} \subseteq cols)
    THEN [g EXCEPT !.exc = "KeyError"]
    ELSE
      LET g1 == [g EXCEPT !.modis = Append(@, CircleMarker(mloc, "red", ModisPopup(row, cols)))]
      IN
      IF ~ ({"viirs_time", "distance_km"} \subseteq cols)
      THEN [g1 EXCEPT !.exc = "KeyError"]
      ELSE
        LET g2 == [g1 EXCEPT !.viirs = Append(@, CircleMarker(vloc, "blue", ViirsPopup(row)))]
        IN  IF show_lines
            THEN [g2 EXCEPT !.lines = Append(@, PolyLine(mloc, vloc))]
            ELSE g2

\* line 52: for _, match in matches_df.iterrows(), from row i on
RECURSIVE InteractiveLoop(_, _, _, _, _)
InteractiveLoop(table, cols, show_lines, i, g) ==
    IF i > Len(table) \/ g.exc # "none" THEN g
    ELSE InteractiveLoop(table, cols, show_lines, i + 1,
                         InteractiveRow(table[i], cols, show_lines, g))

\* a mutant of InteractiveLayers: the VIIRS layer is never added to the map
InteractiveLayers_NoViirs(map, g, show_lines) ==
    LET m1 == AddTo(map, FeatureGroup("MODIS Detections", g.modis))
        m2 == IF show_lines THEN AddTo(m1, FeatureGroup("Matches", g.lines)) ELSE m1
        m3 == AddTo(m2, LayerControl)
    IN  [m3 EXCEPT !.html = Append(@, "title")]

\* lines 97-118: the layers, the layer control and the title overlay
InteractiveLayers(map, g, show_lines) ==
    LET m1 == AddTo(AddTo(map, FeatureGroup("MODIS Detections", g.modis)),
                    FeatureGroup("VIIRS Detections", g.viirs))
        m2 == IF show_lines THEN AddTo(m1, FeatureGroup("Matches", g.lines)) ELSE m1
        m3 == AddTo(m2, LayerControl)
    IN  [m3 EXCEPT !.html = Append(@, "title")]

\* a mutant of Truthy: the map is saved whatever save_html is
Truthy_Always(x) == TRUE

\* `if save_html:` - None and the empty string are falsy
Truthy(x) == x \notin {None, ""}

(***************************************************************************)
(* create_map_screenshot: building the map and composing the page          *)
(***************************************************************************)
\* lines 148-177: one pass of the loop body; r is the map so far and the
\* exception met, if any
ScreenshotRow(row, cols, show_lines, r) ==
    IF ~ ({"modis_lat", "modis_lon", "modis_time"} \subseteq cols)
    THEN [r EXCEPT !.exc = "KeyError"]
    ELSE
      LET mloc == IntLoc(RowValue(row, "modis_lat"), RowValue(row, "modis_lon"))
          r1 == [r EXCEPT !.map = AddTo(@, CircleMarker(mloc, "red",
                     "MODIS: " \o FormatMinute(RowValue(row, "modis_time"))))]
      IN
      IF ~ ({"viirs_lat", "viirs_lon", "viirs_time"} \subseteq cols)
      THEN [r1 EXCEPT !.exc = "KeyError"]
      ELSE
        LET vloc == IntLoc(RowValue(row, "viirs_lat"), RowValue(row, "viirs_lon"))
            r2 == [r1 EXCEPT !.map = AddTo(@, CircleMarker(vloc, "blue",
                       "VIIRS: " \o FormatMinute(RowValue(row, "viirs_time"))))]
        IN  IF show_lines
            THEN [r2 EXCEPT !.map = AddTo(@, PolyLine(mloc, vloc))]
            ELSE r2

\* line 147: for _, match in matches_df.iterrows(), from row i on
RECURSIVE ScreenshotLoop(_, _, _, _, _)
ScreenshotLoop(table, cols, show_lines, i, r) ==
    IF i > Len(table) \/ r.exc # "none" THEN r
    ELSE ScreenshotLoop(table, cols, show_lines, i + 1,
                        ScreenshotRow(table[i], cols, show_lines, r))

\* lines 179-220: the legend, the css with the requested size, the page
AddLegend(map) == [map EXCEPT !.html = Append(@, "legend")]
ComposeHtml(map, width, height) == [css |-> <<width, height>>, root |-> map]

\* m.get_root().render() as m.save() writes it
Render(map) == [css |-> <<>>, root |-> map]

EmptyBody == [css |-> <<0, 0>>, root |-> NoMap]

(***************************************************************************)
(* Files and the browser.                                                  *)
(***************************************************************************)
OutFiles == {"map_screenshot.png"}
HtmlFiles == {"matches_map.html"}
Paths == {TempHtml} \cup OutFiles \cup HtmlFiles

NoFile == [kind |-> "absent", writer |-> "", body |-> EmptyBody]
\* open(path, 'w'): the file exists and is empty until the text is flushed
EmptyFile(p) == [kind |-> "empty", writer |-> p, body |-> EmptyBody]
HtmlFile(p, body) == [kind |-> "html", writer |-> p, body |-> body]
PngFile(p, page) == [kind |-> "png", writer |-> p, body |-> page.body]
\* what an earlier, failed call left behind
StaleFile == [kind |-> "html", writer |-> "earlier", body |-> EmptyBody]

Exists(path) == files[path].kind # "absent"

\* what the browser shows for file://<path> at the moment it loads it
PageOf(file) ==
    IF file.kind = "absent"
    THEN [kind |-> "notfound", writer |-> "", body |-> EmptyBody]
    ELSE [kind |-> file.kind, writer |-> file.writer, body |-> file.body]

BlankPage == [kind |-> "blank", writer |-> "", body |-> EmptyBody]
NoBrowser == [state |-> "none", page |-> BlankPage]

(***************************************************************************)
(* Calls.                                                                  *)
(***************************************************************************)
NoArgs == [op |-> "none", table |-> <<>>, cols |-> {}, show_lines |-> FALSE,
           save_html |-> None, center |-> <<NaN, NaN>>, zoom_level |-> 0,
           width |-> 0, height |-> 0, output_file |-> "", label |-> <<>>]

NoRet == [kind |-> "none", exc |-> "", map |-> NoMap]
Value(map) == [kind |-> "value", exc |-> "", map |-> map]
Exception(name) == [kind |-> "exception", exc |-> name, map |-> NoMap]

\* an uncaught exception ends the call where it stands
Raise(p, name) ==
    /\ pc' = [pc EXCEPT ![p] = "raised"]
    /\ ret' = [ret EXCEPT ![p] = Exception(name)]

Return(p, value) ==
    /\ pc' = [pc EXCEPT ![p] = "returned"]
    /\ ret' = [ret EXCEPT ![p] = value]

Did(p, step) == log' = [log EXCEPT ![p] = Append(@, step)]

InteractiveArgs ==
    {[NoArgs EXCEPT !.op = "interactive", !.table = t, !.cols = c,
                    !.show_lines = sl, !.save_html = sh] :
        t \in Tables, c \in ColumnSets, sl \in BOOLEAN,
        sh \in {None, ""} \cup HtmlFiles}

\* lines 24-124.  nanOk: whether this folium accepts a NaN location (an empty
\* table's means are NaN; folium's validate_location rejects NaN in the
\* versions that check for it)
plot_matches_interactive_map(p, a, nanOk) ==
    /\ pc[p] = "idle"
    /\ a.op = "interactive"
    /\ args' = [args EXCEPT ![p] = a]
    /\ UNCHANGED <<browser, pgf, fig, shown>>
    /\ IF ~ (CoordColumns \subseteq a.cols)
       THEN /\ Raise(p, "KeyError")
            /\ UNCHANGED <<m, files, log>>
       ELSE
         LET center == InteractiveCenter(a.table)
             map == Map(center, InteractiveZoom)
             g == InteractiveLoop(a.table, a.cols, a.show_lines, 1, NoGroups)
             full == InteractiveLayers(map, g, a.show_lines)
         IN
         IF NaN \in {center[1], center[2]} /\ ~ nanOk
         THEN /\ Raise(p, "ValueError")
              /\ UNCHANGED <<m, files, log>>
         ELSE IF g.exc # "none"
         THEN /\ Raise(p, g.exc)
              /\ m' = [m EXCEPT ![p] = map]
              /\ UNCHANGED <<files, log>>
         ELSE /\ m' = [m EXCEPT ![p] = full]
              /\ IF Truthy(a.save_html)
                 THEN /\ files' = [files EXCEPT ![a.save_html] = HtmlFile(p, Render(full))]
                      /\ Did(p, "save")
                 ELSE UNCHANGED <<files, log>>
              /\ Return(p, Value(full))

(***************************************************************************)
(* create_map_screenshot, step by step.  The steps that touch the shared   *)
(* working directory or the browser are separate actions; what is local to *)
(* the call (lines 140-220) is one.                                        *)
(***************************************************************************)
ScreenshotArgsOver(tables, columnSets) ==
    {[NoArgs EXCEPT !.op = "screenshot", !.table = t, !.cols = c, !.show_lines = sl,
                    !.center = IntLoc(51, 10), !.zoom_level = DefaultZoom,
                    !.width = DefaultWidth, !.height = DefaultHeight,
                    !.output_file = o] :
        t \in tables, c \in columnSets, sl \in BOOLEAN, o \in OutFiles}

ScreenshotArgs == ScreenshotArgsOver(Tables, ColumnSets)
ConcurrentArgs == ScreenshotArgsOver(SmallTables, {AllColumns})

\* lines 126-220
create_map_screenshot(p, a) ==
    /\ pc[p] = "idle"
    /\ a.op = "screenshot"
    /\ args' = [args EXCEPT ![p] = a]
    /\ LET r == ScreenshotLoop(a.table, a.cols, a.show_lines, 1,
                               [map |-> Map(a.center, a.zoom_level), exc |-> "none"])
       IN  IF r.exc # "none"
           THEN /\ m' = [m EXCEPT ![p] = r.map]
                /\ Raise(p, r.exc)
           ELSE /\ m' = [m EXCEPT ![p] = AddLegend(r.map)]
                /\ pc' = [pc EXCEPT ![p] = "composed"]
                /\ UNCHANGED ret
    /\ UNCHANGED <<browser, log, files, pgf, fig, shown>>

\* a mutant of OpenTemp: the temporary file is taken only while no other call
\* is between opening it and removing it
OpenTemp_Locked(p) ==
    /\ pc[p] = "composed"
    /\ \A q \in Procs \ {p} :
          pc[q] \notin {"opened", "written", "launched", "loaded", "settled",
                        "captured", "torn_down"}
    /\ files' = [files EXCEPT ![TempHtml] = EmptyFile(p)]
    /\ pc' = [pc EXCEPT ![p] = "opened"]
    /\ Did(p, "open")
    /\ UNCHANGED <<args, m, browser, ret, pgf, fig, shown>>

\* line 223: open(temp_html, 'w') creates or truncates the file
OpenTemp(p) ==
    /\ pc[p] = "composed"
    /\ files' = [files EXCEPT ![TempHtml] = EmptyFile(p)]
    /\ pc' = [pc EXCEPT ![p] = "opened"]
    /\ Did(p, "open")
    /\ UNCHANGED <<args, m, browser, ret, pgf, fig, shown>>

\* line 223 failing (the directory is not writable)
OpenTempFails(p) ==
    /\ pc[p] = "composed"
    /\ Raise(p, "PermissionError")
    /\ UNCHANGED <<args, m, browser, log, files, pgf, fig, shown>>

\* lines 224 and the end of the with block: the text reaches the file as it is
\* closed; the handle writes to the file it opened whatever became of the path
WriteTemp(p) ==
    /\ pc[p] = "opened"
    /\ files' = IF Exists(TempHtml)
                THEN [files EXCEPT ![TempHtml] =
                        HtmlFile(p, ComposeHtml(m[p], args[p].width, args[p].height))]
                ELSE files
    /\ pc' = [pc EXCEPT ![p] = "written"]
    /\ Did(p, "write")
    /\ UNCHANGED <<args, m, browser, ret, pgf, fig, shown>>

\* lines 226-231
LaunchBrowser(p) ==
    /\ pc[p] = "written"
    /\ browser' = [browser EXCEPT ![p] = [state |-> "alive", page |-> BlankPage]]
    /\ pc' = [pc EXCEPT ![p] = "launched"]
    /\ Did(p, "launch")
    /\ UNCHANGED <<args, m, ret, files, pgf, fig, shown>>

\* line 231 failing: no browser process is left
LaunchBrowserFails(p) ==
    /\ pc[p] = "written"
    /\ Raise(p, "WebDriverException")
    /\ Did(p, "launch failed")
    /\ UNCHANGED <<args, m, browser, files, pgf, fig, shown>>

\* line 232: the browser reads whatever is at the path now
BrowserGet(p) ==
    /\ pc[p] = "launched"
    /\ browser' = [browser EXCEPT ![p].page = PageOf(files[TempHtml])]
    /\ pc' = [pc EXCEPT ![p] = "loaded"]
    /\ Did(p, "load")
    /\ UNCHANGED <<args, m, ret, files, pgf, fig, shown>>

\* line 232 failing
BrowserGetFails(p) ==
    /\ pc[p] = "launched"
    /\ Raise(p, "WebDriverException")
    /\ Did(p, "load failed")
    /\ UNCHANGED <<args, m, browser, files, pgf, fig, shown>>

\* a mutant of Settle: the temporary file is removed while the page settles
Settle_RemovesTemp(p) ==
    /\ pc[p] = "loaded"
    /\ pc' = [pc EXCEPT ![p] = "settled"]
    /\ files' = [files EXCEPT ![TempHtml] = NoFile]
    /\ Did(p, "sleep")
    /\ UNCHANGED <<args, m, browser, ret, pgf, fig, shown>>

\* line 235
Settle(p) ==
    /\ pc[p] = "loaded"
    /\ pc' = [pc EXCEPT ![p] = "settled"]
    /\ Did(p, "sleep")
    /\ UNCHANGED <<args, m, browser, ret, files, pgf, fig, shown>>

\* line 236
SaveScreenshot(p) ==
    /\ pc[p] = "settled"
    /\ files' = [files EXCEPT ![args[p].output_file] = PngFile(p, browser[p].page)]
    /\ pc' = [pc EXCEPT ![p] = "captured"]
    /\ Did(p, "screenshot")
    /\ UNCHANGED <<args, m, browser, ret, pgf, fig, shown>>

\* a mutant of SaveScreenshotFails: a finally block tears down and removes
SaveScreenshotFails_CleansUp(p) ==
    /\ pc[p] = "settled"
    /\ Raise(p, "WebDriverException")
    /\ browser' = [browser EXCEPT ![p].state = "quit"]
    /\ files' = [files EXCEPT ![TempHtml] = NoFile]
    /\ Did(p, "screenshot failed")
    /\ UNCHANGED <<args, m, pgf, fig, shown>>

\* line 236 failing
SaveScreenshotFails(p) ==
    /\ pc[p] = "settled"
    /\ Raise(p, "WebDriverException")
    /\ Did(p, "screenshot failed")
    /\ UNCHANGED <<args, m, browser, files, pgf, fig, shown>>

\* a mutant of BrowserQuit: the browser is left running
BrowserQuit_Skipped(p) ==
    /\ pc[p] = "captured"
    /\ pc' = [pc EXCEPT ![p] = "torn_down"]
    /\ Did(p, "quit")
    /\ UNCHANGED <<args, m, browser, ret, files, pgf, fig, shown>>

\* line 237
BrowserQuit(p) ==
    /\ pc[p] = "captured"
    /\ browser' = [browser EXCEPT ![p].state = "quit"]
    /\ pc' = [pc EXCEPT ![p] = "torn_down"]
    /\ Did(p, "quit")
    /\ UNCHANGED <<args, m, ret, files, pgf, fig, shown>>

\* line 238: os.remove raises FileNotFoundError when the path is gone
RemoveTemp(p) ==
    /\ pc[p] = "torn_down"
    /\ IF Exists(TempHtml)
       THEN /\ files' = [files EXCEPT ![TempHtml] = NoFile]
            /\ Did(p, "remove")
            /\ Return(p, Value(NoMap))
       ELSE /\ Raise(p, "FileNotFoundError")
            /\ Did(p, "remove failed")
            /\ UNCHANGED files
    /\ UNCHANGED <<args, m, browser, pgf, fig, shown>>

ScreenshotStep(p) ==
    \/ OpenTemp(p) \/ OpenTempFails(p) \/ WriteTemp(p)
    \/ LaunchBrowser(p) \/ LaunchBrowserFails(p)
    \/ BrowserGet(p) \/ BrowserGetFails(p)
    \/ Settle(p)
    \/ SaveScreenshot(p) \/ SaveScreenshotFails(p)
    \/ BrowserQuit(p)
    \/ RemoveTemp(p)

(***************************************************************************)
(* plot_histogram and plot_time_distance.  A string is the sequence of its *)
(* characters.                                                             *)
(***************************************************************************)
UpperCase == <<"A", "B", "C", "D", "E", "F", "G", "H", "I", "J", "K", "L", "M",
               "N", "O", "P", "Q", "R", "S", "T", "U", "V", "W", "X", "Y", "Z">>
LowerCase == <<"a", "b", "c", "d", "e", "f", "g", "h", "i", "j", "k", "l", "m",
               "n", "o", "p", "q", "r", "s", "t", "u", "v", "w", "x", "y", "z">>

LowerChar(c) ==
    IF \E i \in DOMAIN UpperCase : UpperCase[i] = c
    THEN LowerCase[CHOOSE i \in DOMAIN UpperCase : UpperCase[i] = c]
    ELSE c

\* str.lower()
Lower(s) == [i \in 1..Len(s) |-> LowerChar(s[i])]

StartsWith(s, old) ==
    /\ Len(old) <= Len(s)
    /\ SubSeq(s, 1, Len(old)) = old

\* a mutant of Replace: only the first occurrence is replaced
Replace_FirstOnly(s, old, new) ==
    IF \E i \in 1..Len(s) : StartsWith(SubSeq(s, i, Len(s)), old)
    THEN LET i == CHOOSE k \in 1..Len(s) :
                    /\ StartsWith(SubSeq(s, k, Len(s)), old)
                    /\ \A j \in 1..(k - 1) : ~ StartsWith(SubSeq(s, j, Len(s)), old)
         IN  SubSeq(s, 1, i - 1) \o new \o SubSeq(s, i + Len(old), Len(s))
    ELSE s

\* str.replace(old, new) for a non-empty old: left to right, not overlapping
RECURSIVE Replace(_, _, _)
Replace(s, old, new) ==
    IF s = <<>> THEN <<>>
    ELSE IF StartsWith(s, old)
    THEN new \o Replace(SubSeq(s, Len(old) + 1, Len(s)), old, new)
    ELSE <<Head(s)>> \o Replace(Tail(s), old, new)

LatexPlots == <<"l", "a", "t", "e", "x", "_", "p", "l", "o", "t", "s", "/">>
HistogramStem == <<"h", "i", "s", "t", "o", "g", "r", "a", "m", "_">>
TimeDistanceStem == <<"t", "i", "m", "e", "_", "d", "i", "s", "t", "a", "n", "c", "e", "_">>
PgfSuffix == <<".", "p", "g", "f">>

\* line 258
HistogramPath(dataset_name) ==
    LatexPlots \o HistogramStem \o Replace(Lower(dataset_name), <<" ">>, <<"_">>) \o PgfSuffix

\* line 277
TimeDistancePath(dataset_name) ==
    LatexPlots \o TimeDistanceStem \o Replace(Lower(dataset_name), <<" ">>, <<"_">>) \o PgfSuffix

SavePath(a) == IF a.op = "histogram" THEN HistogramPath(a.label) ELSE TimeDistancePath(a.label)

\* lines 260 and 279
TitleOf(a) ==
    [text |-> IF a.op = "histogram"
              THEN "Distribution of Detection Time Differences"
              ELSE "Time Difference vs. Spatial Distance",
     dataset |-> a.label]

NoTitle == [text |-> "", dataset |-> <<>>]
NoFigure == [kind |-> "none", points |-> 0, title |-> NoTitle]

ExampleLabel == <<"M", "O", "D", "I", "S", " ", "C", "o", "m", "p", "a", "r", "i", "s", "o", "n">>
LabelChars == {"M", "s", " ", "_"}
Labels == SeqsUpTo(LabelChars, MaxLabelLen) \cup {ExampleLabel}

PlotArgs ==
    {[NoArgs EXCEPT !.op = op, !.table = t, !.cols = AllColumns, !.label = l] :
        op \in {"histogram", "time_distance"}, t \in SmallTables, l \in Labels}

\* a mutant of NewFigure: the title is set while the chart is drawn
NewFigure_Titled(p, a) ==
    /\ pc[p] = "idle"
    /\ a.op \in {"histogram", "time_distance"}
    /\ args' = [args EXCEPT ![p] = a]
    /\ fig' = [kind |-> a.op, points |-> Len(a.table), title |-> TitleOf(a)]
    /\ pc' = [pc EXCEPT ![p] = "laid_out"]
    /\ UNCHANGED <<m, browser, ret, log, files, pgf, shown>>

\* lines 242-257 and 265-276: a new current figure with the chart, no title
NewFigure(p, a) ==
    /\ pc[p] = "idle"
    /\ a.op \in {"histogram", "time_distance"}
    /\ args' = [args EXCEPT ![p] = a]
    /\ fig' = [kind |-> a.op, points |-> Len(a.table), title |-> NoTitle]
    /\ pc' = [pc EXCEPT ![p] = "laid_out"]
    /\ UNCHANGED <<m, browser, ret, log, files, pgf, shown>>

\* lines 258 and 277: the file holds the figure as it is now
Savefig(p) ==
    /\ pc[p] = "laid_out"
    /\ pgf' = {f \in pgf : f.path # SavePath(args[p])}
                 \cup {[path |-> SavePath(args[p]), figure |-> fig]}
    /\ pc' = [pc EXCEPT ![p] = "saved"]
    /\ Did(p, "savefig")
    /\ UNCHANGED <<args, m, browser, ret, files, fig, shown>>

\* lines 258 and 277 failing (latex_plots/ does not exist)
SavefigFails(p) ==
    /\ pc[p] = "laid_out"
    /\ Raise(p, "FileNotFoundError")
    /\ UNCHANGED <<args, m, browser, log, files, pgf, fig, shown>>

\* lines 260 and 279
SetTitle(p) ==
    /\ pc[p] = "saved"
    /\ fig' = [fig EXCEPT !.title = TitleOf(args[p])]
    /\ pc' = [pc EXCEPT ![p] = "titled"]
    /\ Did(p, "title")
    /\ UNCHANGED <<args, m, browser, ret, files, pgf, shown>>

\* lines 261 and 280
Show(p) ==
    /\ pc[p] = "titled"
    /\ shown' = fig
    /\ Did(p, "show")
    /\ Return(p, Value(NoMap))
    /\ UNCHANGED <<args, m, browser, files, pgf, fig>>

(***************************************************************************)
(* The specifications.                                                     *)
(***************************************************************************)
CleanDirectory == [path \in Paths |-> NoFile]

\* the working directory is clean, or holds the temporary file an earlier,
\* failed screenshot call left behind
Init ==
    /\ pc = [p \in Procs |-> "idle"]
    /\ args = [p \in Procs |-> NoArgs]
    /\ m = [p \in Procs |-> NoMap]
    /\ browser = [p \in Procs |-> NoBrowser]
    /\ ret = [p \in Procs |-> NoRet]
    /\ log = [p \in Procs |-> <<>>]
    /\ files \in {CleanDirectory, [CleanDirectory EXCEPT ![TempHtml] = StaleFile]}
    /\ pgf = {}
    /\ fig = NoFigure
    /\ shown = NoFigure

\* one caller, one call
Call(p) ==
    /\ pc[p] = "idle"
    /\ \/ \E a \in InteractiveArgs, nanOk \in BOOLEAN : plot_matches_interactive_map(p, a, nanOk)
       \/ \E a \in ScreenshotArgs : create_map_screenshot(p, a)
       \/ \E a \in PlotArgs : NewFigure(p, a)

Next ==
    \/ Call(Main)
    \/ ScreenshotStep(Main)
    \/ Savefig(Main) \/ SavefigFails(Main) \/ SetTitle(Main) \/ Show(Main)

Spec == Init /\ [][Next]_vars

\* two callers, each one call of create_map_screenshot, interleaved freely
CallConcurrently(p) ==
    /\ pc[p] = "idle"
    /\ \E a \in ConcurrentArgs : create_map_screenshot(p, a)

NextConc ==
    \E p \in Procs : CallConcurrently(p) \/ ScreenshotStep(p)

SpecConc == Init /\ [][NextConc]_vars

(***************************************************************************)
(* The claims.                                                             *)
(***************************************************************************)
Called(p, op) == args[p].op = op /\ pc[p] # "idle"
Logged(p, step) == \E i \in DOMAIN log[p] : log[p][i] = step

\* the columns each map function reads with match[...] or matches_df[...]
RequiredColumns(op) ==
    IF op = "interactive" THEN AllColumns \ OptionalColumns
    ELSE CoordColumns \cup {"modis_time", "viirs_time"}

\* C1: for a matched-pairs table of n rows (n >= 0) both map functions put
\* exactly 2n circle markers on the map, n red (MODIS) and n blue (VIIRS), and
\* exactly n connectors when show_lines is true, none when it is false.
C1_MarkersAndConnectors ==
    \A p \in Procs :
        LET a == args[p]
            n == Len(a.table)
        IN  ( /\ Called(p, "interactive") \/ Called(p, "screenshot")
              /\ RequiredColumns(a.op) \subseteq a.cols )
            => /\ CountType(m[p].children, "CircleMarker") = 2 * n
               /\ CountColor(m[p].children, "red") = n
               /\ CountColor(m[p].children, "blue") = n
               /\ CountType(m[p].children, "PolyLine") = IF a.show_lines THEN n ELSE 0

C1_Witness ==
    /\ Called(Main, "interactive")
    /\ ret[Main].kind = "value"
    /\ Len(args[Main].table) = 2
    /\ args[Main].show_lines
    /\ CountType(m[Main].children, "PolyLine") = 2

\* C2: when a single call of create_map_screenshot has returned, temp_map.html,
\* which it wrote, is gone and its browser has been shut down.
C2_CleanAfterReturn ==
    \A p \in Procs :
        (Called(p, "screenshot") /\ pc[p] = "returned")
        => /\ Logged(p, "write")
           /\ ~ Exists(TempHtml)
           /\ browser[p].state = "quit"

C2_Witness ==
    /\ Called(Main, "screenshot")
    /\ pc[Main] = "returned"
    /\ Len(args[Main].table) >= 1

\* C3: nothing makes a call of create_map_screenshot wait for another: each of
\* its steps on the shared temp_map.html can be taken wherever the other call
\* stands.  (The witness is the race itself: one browser shows the other
\* call's page, the other browser finds no file, and the second removal fails.)
C3_NoLock ==
    \A p \in Procs :
        /\ pc[p] = "composed" => ENABLED OpenTemp(p)
        /\ pc[p] = "opened" => ENABLED WriteTemp(p)
        /\ pc[p] = "launched" => ENABLED BrowserGet(p)
        /\ pc[p] = "torn_down" => ENABLED RemoveTemp(p)

C3_Witness ==
    \E p, q \in Procs :
        /\ p # q
        /\ browser[p].page.kind = "html"
        /\ browser[p].page.writer = q
        /\ browser[q].page.kind = "notfound"
        /\ pc[p] = "returned"
        /\ pc[q] = "raised"
        /\ ret[q] = Exception("FileNotFoundError")

\* C4: when browser launch, page load or screenshot capture fails after the
\* temporary file was written, the exception reaches the caller and nothing is
\* cleaned up: the file is still there, and a browser that was started is
\* still running.
C4_NoCleanupOnFailure ==
    \A p \in Procs :
        ( /\ Called(p, "screenshot")
          /\ pc[p] = "raised"
          /\ Logged(p, "write") )
        => /\ ret[p].kind = "exception"
           /\ Exists(TempHtml)
           /\ ~ Logged(p, "quit")
           /\ ~ Logged(p, "remove")
           /\ browser[p].state = IF Logged(p, "launch") THEN "alive" ELSE "none"

C4_Witness ==
    /\ Called(Main, "screenshot")
    /\ pc[Main] = "raised"
    /\ Logged(Main, "screenshot failed")
    /\ browser[Main].state = "alive"
    /\ Exists(TempHtml)

\* the dataset name lower-cased with every space replaced by an underscore
NormalisedLabel(label) ==
    [i \in 1..Len(label) |-> IF label[i] = " " THEN "_" ELSE LowerChar(label[i])]

ExpectedPath(op, label) ==
    LatexPlots \o (IF op = "histogram" THEN HistogramStem ELSE TimeDistanceStem)
               \o NormalisedLabel(label) \o PgfSuffix

ExampleHistogramPath == <<"l", "a", "t", "e", "x", "_", "p", "l", "o", "t", "s", "/", "h", "i", "s", "t", "o", "g", "r", "a", "m", "_", "m", "o", "d", "i", "s", "_", "c", "o", "m", "p", "a", "r", "i", "s", "o", "n", ".", "p", "g", "f">>
ExampleTimeDistancePath == <<"l", "a", "t", "e", "x", "_", "p", "l", "o", "t", "s", "/", "t", "i", "m", "e", "_", "d", "i", "s", "t", "a", "n", "c", "e", "_", "m", "o", "d", "i", "s", "_", "c", "o", "m", "p", "a", "r", "i", "s", "o", "n", ".", "p", "g", "f">>

\* C5: plot_histogram saves to latex_plots/histogram_<label>.pgf and
\* plot_time_distance to latex_plots/time_distance_<label>.pgf, <label> being
\* the dataset name lower-cased with every space replaced by an underscore;
\* "MODIS Comparison" gives histogram_modis_comparison.pgf and
\* time_distance_modis_comparison.pgf.
C5_SavePath ==
    \A p \in Procs :
        (Called(p, "histogram") \/ Called(p, "time_distance")) /\ Logged(p, "savefig")
        => /\ \A f \in pgf : f.path = ExpectedPath(args[p].op, args[p].label)
           /\ pgf # {}
           /\ args[p].label = ExampleLabel
              => \A f \in pgf : f.path = IF args[p].op = "histogram"
                                         THEN ExampleHistogramPath
                                         ELSE ExampleTimeDistancePath

C5_Witness ==
    /\ Called(Main, "time_distance")
    /\ args[Main].label = <<"M", " ", " ">>
    /\ \E f \in pgf : f.path = LatexPlots \o TimeDistanceStem \o <<"m", "_", "_">> \o PgfSuffix

\* C6: in both plotters the figure is saved before the title is set and the
\* title is set before the figure is displayed: no saved file has the title,
\* every displayed figure has it.
C6_SaveThenTitleThenShow ==
    \A p \in Procs :
        (Called(p, "histogram") \/ Called(p, "time_distance"))
        => /\ pc[p] # "raised" =>
                log[p] = SubSeq(<<"savefig", "title", "show">>, 1, Len(log[p]))
           /\ pc[p] = "returned" => Len(log[p]) = 3
           /\ \A f \in pgf : f.figure.title = NoTitle /\ f.figure.kind = args[p].op
           /\ shown # NoFigure =>
                /\ shown.title = TitleOf(args[p])
                /\ shown.title # NoTitle
           /\ pc[p] = "returned" => shown # NoFigure /\ pgf # {}

C6_Witness ==
    /\ Called(Main, "histogram")
    /\ pc[Main] = "returned"
    /\ shown.title = TitleOf(args[Main])
    /\ \E f \in pgf : f.figure.title = NoTitle

\* C7: plot_matches_interactive_map writes the map as an HTML file exactly when
\* save_html is a destination path, and every successful call returns the map
\* object, file or no file.
C7_SaveIffPathGiven ==
    \A p \in Procs :
        Called(p, "interactive")
        => /\ ret[p].kind = "value" =>
                /\ ret[p].map = m[p]
                /\ ret[p].map # NoMap
                /\ Logged(p, "save") <=> args[p].save_html \in HtmlFiles
                /\ \A path \in HtmlFiles :
                      Exists(path) <=> args[p].save_html = path
                /\ \A path \in HtmlFiles :
                      Exists(path) => files[path] = HtmlFile(p, Render(m[p]))
           /\ ret[p].kind # "value" =>
                /\ ~ Logged(p, "save")
                /\ \A path \in HtmlFiles : ~ Exists(path)

C7_Witness ==
    /\ Called(Main, "interactive")
    /\ ret[Main].kind = "value"
    /\ args[Main].save_html \in HtmlFiles
    /\ Exists(args[Main].save_html)
    /\ Len(args[Main].table) >= 1

\* the MODIS markers of the map a successful call built
ModisMarkers(map) == map.children[1].children

\* C8: with rows that lack modis_confidence and/or modis_brightness,
\* plot_matches_interactive_map does not raise and each such row's MODIS popup
\* shows 'N/A' for each attribute it lacks; with rows that lack a required
\* attribute it raises a lookup error.
C8_PlaceholderForMissingOptional ==
    \A p \in Procs :
        LET a == args[p]
        IN  (Called(p, "interactive") /\ Len(a.table) >= 1)
            => IF RequiredColumns("interactive") \subseteq a.cols
               THEN /\ ret[p].kind = "value"
                    /\ Len(ModisMarkers(m[p])) = Len(a.table)
                    /\ \A i \in 1..Len(a.table) :
                          LET popup == ModisMarkers(m[p])[i].popup
                          IN  /\ "modis_confidence" \notin a.cols => popup.confidence = NA
                              /\ "modis_brightness" \notin a.cols => popup.brightness = NA
                              /\ "modis_confidence" \in a.cols => popup.confidence = "80"
                              /\ "modis_brightness" \in a.cols => popup.brightness = "310"
               ELSE ret[p] = Exception("KeyError")

C8_Witness ==
    /\ Called(Main, "interactive")
    /\ ret[Main].kind = "value"
    /\ Len(args[Main].table) = 2
    /\ args[Main].cols = AllColumns \ OptionalColumns
    /\ ModisMarkers(m[Main])[2].popup.confidence = NA
    /\ ModisMarkers(m[Main])[2].popup.brightness = NA

\* x = total / count, for a rational x
IsQuotient(x, total, count) == x[2] > 0 /\ x[1] * count = x[2] * total

\* C9: for a table of n >= 1 rows the centre of the map built by
\* plot_matches_interactive_map is (mean(modis_lat) + mean(viirs_lat)) / 2 and
\* (mean(modis_lon) + mean(viirs_lon)) / 2, each mean the unweighted average
\* over all rows, that is (sum(modis) + sum(viirs)) / 2n.
C9_CenterIsMidpointOfMeans ==
    \A p \in Procs :
        LET a == args[p]
            n == Len(a.table)
        IN  ( /\ Called(p, "interactive")
              /\ n >= 1
              /\ CoordColumns \subseteq a.cols )
            => /\ IsQuotient(m[p].location[1],
                             SumSeq(Column(a.table, "modis_lat"))
                               + SumSeq(Column(a.table, "viirs_lat")), 2 * n)
               /\ IsQuotient(m[p].location[2],
                             SumSeq(Column(a.table, "modis_lon"))
                               + SumSeq(Column(a.table, "viirs_lon")), 2 * n)

C9_Witness ==
    /\ Called(Main, "interactive")
    /\ ret[Main].kind = "value"
    /\ Len(args[Main].table) = 2
    /\ m[Main].location = <<Rat(195, 4), Rat(33, 4)>>

ScreenshotOrder ==
    <<"open", "write", "launch", "load", "sleep", "screenshot", "quit", "remove">>

\* C10: a successful run of create_map_screenshot writes and closes the
\* temporary file, launches the browser, loads the file, waits, captures the
\* screenshot, shuts the browser down and only then deletes the file; the file
\* exists as long as the browser is alive and the screenshot shows the loaded
\* page.
C10_ScreenshotOrder ==
    \A p \in Procs :
        Called(p, "screenshot")
        => /\ pc[p] # "raised" => log[p] = SubSeq(ScreenshotOrder, 1, Len(log[p]))
           /\ pc[p] = "returned" => log[p] = ScreenshotOrder
           /\ browser[p].state = "alive" =>
                files[TempHtml] = HtmlFile(p, ComposeHtml(m[p], args[p].width, args[p].height))
           /\ Logged(p, "screenshot") =>
                /\ Logged(p, "load")
                /\ files[args[p].output_file] = PngFile(p, PageOf(
                      HtmlFile(p, ComposeHtml(m[p], args[p].width, args[p].height))))

C10_Witness ==
    /\ Called(Main, "screenshot")
    /\ pc[Main] = "returned"
    /\ log[Main] = ScreenshotOrder
    /\ Exists("map_screenshot.png")
=============================================================================
